---- MODULE Spec2Model ----
(***************************************************************************)
(* Model of the transaction processor (src/src/processor.rs): the account  *)
(* store, the transaction history and TransactionProcessor::handle /        *)
(* summary.  Decimal amounts are modelled as integers counting the smallest *)
(* unit of the input's scale.                                               *)
(***************************************************************************)
EXTENDS Integers, Sequences, FiniteSets, TLC

\* ------------------------------------------------------------------ bounds
NumClients == 2
NumTx == 2
MaxAmount == 2
MaxEvents == 4

\* ------------------------------------------------------------- data model
ClientId == 1..NumClients

TransactionId == 1..NumTx

\* amounts an input record can carry; negative ones are representable
Amount == -1..MaxAmount

Deposit == [kind : {"deposit"}, client : ClientId, transaction_id : TransactionId, amount : Amount]

Withdrawal == [kind : {"withdrawal"}, client : ClientId, transaction_id : TransactionId, amount : Amount]

Dispute == [kind : {"dispute"}, client : ClientId, transaction_id : TransactionId]

Resolve == [kind : {"resolve"}, client : ClientId, transaction_id : TransactionId]

Chargeback == [kind : {"chargeback"}, client : ClientId, transaction_id : TransactionId]

Transaction == Deposit \cup Withdrawal \cup Dispute \cup Resolve \cup Chargeback

client_id(tx) == tx.client

tx_id(tx) == tx.transaction_id

ProcessingErrorKind ==
    {"NegativeAmount", "NotSufficientFunds", "DisputeReferencesAlreadyDisputedTx",
     "NotSufficientFundsForDispute", "ResolveWhenTxNotUnderDispute",
     "ChargebackWhenTxNotUnderDispute"}

\* Option<ProcessingError>: <<>> is None, <<e>> is Some(e)
ProcessingError(client, tx, kind) == <<[client |-> client, tx |-> tx, kind |-> kind]>>

\* Account::default()
DefaultAccount == [available |-> 0, held |-> 0, locked |-> FALSE, error |-> <<>>]

TransactionState(amount, is_under_dispute, is_deposit) ==
    [amount |-> amount, is_under_dispute |-> is_under_dispute, is_deposit |-> is_deposit]

AccountSummary(client, account) ==
    [client |-> client, available |-> account.available, held |-> account.held,
     total |-> account.available + account.held, locked |-> account.locked]

\* ------------------------------------------------------------- operations
\* self.accounts.entry(client).or_default()
entry_or_default(accounts, client) ==
    IF client \in DOMAIN accounts
    THEN accounts
    ELSE [c \in DOMAIN accounts \cup {client} |->
            IF c = client THEN DefaultAccount ELSE accounts[c]]

\* a gate that forgets the recorded error
is_frozen_locked_only(account) == account.locked

\* the gate: account.locked || account.error.is_some()
is_frozen(account) == account.locked \/ account.error # <<>>

\* Result of a match arm: the account and history after it, and whether the
\* arm returned early (so that add_transaction is not reached).
Arm(account, transactions, returned) ==
    [account |-> account, transactions |-> transactions, returned |-> returned]

Reject(account, transactions, tx, kind) ==
    Arm([account EXCEPT !.error = ProcessingError(tx.client, tx.transaction_id, kind)],
        transactions, TRUE)

\* a deposit that rejects the amount 0 as well
deposit_arm_rejects_zero(account, transactions, deposit) ==
    IF deposit.amount <= 0
    THEN Reject(account, transactions, deposit, "NegativeAmount")
    ELSE Arm([account EXCEPT !.available = @ + deposit.amount], transactions, FALSE)

deposit_arm(account, transactions, deposit) ==
    IF deposit.amount < 0
    THEN Reject(account, transactions, deposit, "NegativeAmount")
    ELSE Arm([account EXCEPT !.available = @ + deposit.amount], transactions, FALSE)

\* a withdrawal that credits instead of debiting
withdrawal_arm_credits(account, transactions, withdrawal) ==
    IF withdrawal.amount < 0
    THEN Reject(account, transactions, withdrawal, "NegativeAmount")
    ELSE IF withdrawal.amount > account.available
    THEN Reject(account, transactions, withdrawal, "NotSufficientFunds")
    ELSE Arm([account EXCEPT !.available = @ + withdrawal.amount], transactions, FALSE)

\* a withdrawal that rejects the whole available balance
withdrawal_arm_rejects_equal(account, transactions, withdrawal) ==
    IF withdrawal.amount < 0
    THEN Reject(account, transactions, withdrawal, "NegativeAmount")
    ELSE IF withdrawal.amount >= account.available
    THEN Reject(account, transactions, withdrawal, "NotSufficientFunds")
    ELSE Arm([account EXCEPT !.available = @ - withdrawal.amount], transactions, FALSE)

\* a withdrawal that does not check the available funds
withdrawal_arm_no_funds_check(account, transactions, withdrawal) ==
    IF withdrawal.amount < 0
    THEN Reject(account, transactions, withdrawal, "NegativeAmount")
    ELSE Arm([account EXCEPT !.available = @ - withdrawal.amount], transactions, FALSE)

withdrawal_arm(account, transactions, withdrawal) ==
    IF withdrawal.amount < 0
    THEN Reject(account, transactions, withdrawal, "NegativeAmount")
    ELSE IF withdrawal.amount > account.available
    THEN Reject(account, transactions, withdrawal, "NotSufficientFunds")
    ELSE Arm([account EXCEPT !.available = @ - withdrawal.amount], transactions, FALSE)

\* the shape of the Dispute arm, with its steps as parameters: what a missing
\* entry does, whether the funds check is made, whether available is debited,
\* whether the entry is flagged
dispute_arm_variant(account, transactions, dispute, missing_is_error, funds_check,
                    debit, flag) ==
    IF dispute.transaction_id \notin DOMAIN transactions
    THEN IF missing_is_error
         THEN Reject(account, transactions, dispute, "DisputeReferencesAlreadyDisputedTx")
         ELSE Arm(account, transactions, TRUE)
    ELSE LET tx_state == transactions[dispute.transaction_id]
             flagged == IF flag
                        THEN [transactions EXCEPT
                                ![dispute.transaction_id].is_under_dispute = TRUE]
                        ELSE transactions
         IN
         IF tx_state.is_under_dispute
         THEN Reject(account, transactions, dispute, "DisputeReferencesAlreadyDisputedTx")
         ELSE IF tx_state.is_deposit
         THEN IF funds_check /\ tx_state.amount > account.available
              THEN Reject(account, transactions, dispute, "NotSufficientFundsForDispute")
              ELSE Arm([account EXCEPT
                          !.available = IF debit THEN @ - tx_state.amount ELSE @,
                          !.held = @ + tx_state.amount],
                       flagged, FALSE)
         ELSE Arm([account EXCEPT !.held = @ + tx_state.amount], flagged, FALSE)

\* a dispute that holds the funds of a deposit without taking them from available
dispute_arm_no_debit(account, transactions, dispute) ==
    dispute_arm_variant(account, transactions, dispute, FALSE, TRUE, FALSE, TRUE)

\* a dispute that treats an unknown transaction id as an error
dispute_arm_missing_is_error(account, transactions, dispute) ==
    dispute_arm_variant(account, transactions, dispute, TRUE, TRUE, TRUE, TRUE)

\* a dispute that does not mark the entry as under dispute
dispute_arm_no_flag(account, transactions, dispute) ==
    dispute_arm_variant(account, transactions, dispute, FALSE, TRUE, TRUE, FALSE)

\* a dispute that does not check the available funds
dispute_arm_no_funds_check(account, transactions, dispute) ==
    dispute_arm_variant(account, transactions, dispute, FALSE, FALSE, TRUE, TRUE)

\* a dispute that makes the funds check for withdrawal entries too
dispute_arm_checks_withdrawals(account, transactions, dispute) ==
    IF dispute.transaction_id \notin DOMAIN transactions
    THEN Arm(account, transactions, TRUE)
    ELSE LET tx_state == transactions[dispute.transaction_id] IN
         IF tx_state.is_under_dispute
         THEN Reject(account, transactions, dispute, "DisputeReferencesAlreadyDisputedTx")
         ELSE IF tx_state.amount > account.available
         THEN Reject(account, transactions, dispute, "NotSufficientFundsForDispute")
         ELSE Arm(IF tx_state.is_deposit
                  THEN [account EXCEPT !.available = @ - tx_state.amount,
                                       !.held = @ + tx_state.amount]
                  ELSE [account EXCEPT !.held = @ + tx_state.amount],
                  [transactions EXCEPT ![dispute.transaction_id].is_under_dispute = TRUE],
                  FALSE)

\* a dispute that makes the funds check before the already-disputed check
dispute_arm_funds_check_first(account, transactions, dispute) ==
    IF dispute.transaction_id \notin DOMAIN transactions
    THEN Arm(account, transactions, TRUE)
    ELSE LET tx_state == transactions[dispute.transaction_id] IN
         IF tx_state.is_deposit /\ tx_state.amount > account.available
         THEN Reject(account, transactions, dispute, "NotSufficientFundsForDispute")
         ELSE IF tx_state.is_under_dispute
         THEN Reject(account, transactions, dispute, "DisputeReferencesAlreadyDisputedTx")
         ELSE Arm(IF tx_state.is_deposit
                  THEN [account EXCEPT !.available = @ - tx_state.amount,
                                       !.held = @ + tx_state.amount]
                  ELSE [account EXCEPT !.held = @ + tx_state.amount],
                  [transactions EXCEPT ![dispute.transaction_id].is_under_dispute = TRUE],
                  FALSE)

dispute_arm(account, transactions, dispute) ==
    IF dispute.transaction_id \notin DOMAIN transactions
    THEN Arm(account, transactions, TRUE)
    ELSE LET tx_state == transactions[dispute.transaction_id] IN
         IF tx_state.is_under_dispute
         THEN Reject(account, transactions, dispute, "DisputeReferencesAlreadyDisputedTx")
         ELSE IF tx_state.is_deposit
         THEN IF tx_state.amount > account.available
              THEN Reject(account, transactions, dispute, "NotSufficientFundsForDispute")
              ELSE Arm([account EXCEPT !.available = @ - tx_state.amount,
                                       !.held = @ + tx_state.amount],
                       [transactions EXCEPT
                            ![dispute.transaction_id].is_under_dispute = TRUE],
                       FALSE)
         ELSE Arm([account EXCEPT !.held = @ + tx_state.amount],
                  [transactions EXCEPT ![dispute.transaction_id].is_under_dispute = TRUE],
                  FALSE)

\* a resolve that leaves the entry under dispute
resolve_arm_keeps_flag(account, transactions, resolve) ==
    IF resolve.transaction_id \notin DOMAIN transactions
    THEN Arm(account, transactions, TRUE)
    ELSE LET tx_state == transactions[resolve.transaction_id] IN
         IF ~tx_state.is_under_dispute
         THEN Reject(account, transactions, resolve, "ResolveWhenTxNotUnderDispute")
         ELSE Arm([account EXCEPT !.available = @ + tx_state.amount,
                                  !.held = @ - tx_state.amount],
                  transactions, FALSE)

resolve_arm(account, transactions, resolve) ==
    IF resolve.transaction_id \notin DOMAIN transactions
    THEN Arm(account, transactions, TRUE)
    ELSE LET tx_state == transactions[resolve.transaction_id] IN
         IF ~tx_state.is_under_dispute
         THEN Reject(account, transactions, resolve, "ResolveWhenTxNotUnderDispute")
         ELSE Arm([account EXCEPT !.available = @ + tx_state.amount,
                                  !.held = @ - tx_state.amount],
                  [transactions EXCEPT ![resolve.transaction_id].is_under_dispute = FALSE],
                  FALSE)

\* a chargeback that leaves the account unlocked
chargeback_arm_no_lock(account, transactions, chargeback) ==
    IF chargeback.transaction_id \notin DOMAIN transactions
    THEN Arm(account, transactions, TRUE)
    ELSE LET tx_state == transactions[chargeback.transaction_id] IN
         IF ~tx_state.is_under_dispute
         THEN Reject(account, transactions, chargeback, "ChargebackWhenTxNotUnderDispute")
         ELSE Arm(IF tx_state.is_deposit
                  THEN [account EXCEPT !.held = @ - tx_state.amount]
                  ELSE [account EXCEPT !.available = @ + tx_state.amount,
                                       !.held = @ - tx_state.amount],
                  [transactions EXCEPT ![chargeback.transaction_id].is_under_dispute = FALSE],
                  FALSE)

\* a chargeback that treats a withdrawal entry like a deposit entry
chargeback_arm_no_credit(account, transactions, chargeback) ==
    IF chargeback.transaction_id \notin DOMAIN transactions
    THEN Arm(account, transactions, TRUE)
    ELSE LET tx_state == transactions[chargeback.transaction_id] IN
         IF ~tx_state.is_under_dispute
         THEN Reject(account, transactions, chargeback, "ChargebackWhenTxNotUnderDispute")
         ELSE Arm([account EXCEPT !.held = @ - tx_state.amount, !.locked = TRUE],
                  [transactions EXCEPT ![chargeback.transaction_id].is_under_dispute = FALSE],
                  FALSE)

chargeback_arm(account, transactions, chargeback) ==
    IF chargeback.transaction_id \notin DOMAIN transactions
    THEN Arm(account, transactions, TRUE)
    ELSE LET tx_state == transactions[chargeback.transaction_id] IN
         IF ~tx_state.is_under_dispute
         THEN Reject(account, transactions, chargeback, "ChargebackWhenTxNotUnderDispute")
         ELSE Arm(IF tx_state.is_deposit
                  THEN [account EXCEPT !.held = @ - tx_state.amount, !.locked = TRUE]
                  ELSE [account EXCEPT !.available = @ + tx_state.amount,
                                       !.held = @ - tx_state.amount,
                                       !.locked = TRUE],
                  [transactions EXCEPT ![chargeback.transaction_id].is_under_dispute = FALSE],
                  FALSE)

\* an insert that keeps the entry an id already has
add_transaction_keeps_existing(transactions, tx) ==
    IF tx.kind \in {"dispute", "resolve", "chargeback"} \/ tx_id(tx) \in DOMAIN transactions
    THEN transactions
    ELSE LET state == TransactionState(tx.amount, FALSE, tx.kind = "deposit") IN
         [t \in DOMAIN transactions \cup {tx_id(tx)} |->
            IF t = tx_id(tx) THEN state ELSE transactions[t]]

\* self.transactions.insert(tx_id, state) for a deposit or a withdrawal
add_transaction(transactions, tx) ==
    IF tx.kind \in {"dispute", "resolve", "chargeback"}
    THEN transactions
    ELSE LET state == TransactionState(tx.amount, FALSE, tx.kind = "deposit") IN
         [t \in DOMAIN transactions \cup {tx_id(tx)} |->
            IF t = tx_id(tx) THEN state ELSE transactions[t]]

match_arm(account, transactions, tx) ==
    CASE tx.kind = "deposit" -> deposit_arm(account, transactions, tx)
      [] tx.kind = "withdrawal" -> withdrawal_arm(account, transactions, tx)
      [] tx.kind = "dispute" -> dispute_arm(account, transactions, tx)
      [] tx.kind = "resolve" -> resolve_arm(account, transactions, tx)
      [] tx.kind = "chargeback" -> chargeback_arm(account, transactions, tx)

\* a handle that records the event in the history whether or not the arm returned
handle_always_records(p, tx) ==
    LET accounts == entry_or_default(p.accounts, client_id(tx))
        account == accounts[client_id(tx)]
    IN  IF is_frozen(account)
        THEN [accounts |-> accounts, transactions |-> p.transactions]
        ELSE LET r == match_arm(account, p.transactions, tx) IN
             [accounts |-> [accounts EXCEPT ![client_id(tx)] = r.account],
              transactions |-> add_transaction(r.transactions, tx)]

\* a handle whose rejection stops every account, not only the event's
handle_error_on_all(p, tx) ==
    LET accounts == entry_or_default(p.accounts, client_id(tx))
        account == accounts[client_id(tx)]
    IN  IF is_frozen(account)
        THEN [accounts |-> accounts, transactions |-> p.transactions]
        ELSE LET r == match_arm(account, p.transactions, tx) IN
             [accounts |-> IF r.account.error # <<>>
                           THEN [c \in DOMAIN accounts |->
                                    [accounts[c] EXCEPT !.error = r.account.error]]
                           ELSE [accounts EXCEPT ![client_id(tx)] = r.account],
              transactions |-> IF r.returned
                               THEN r.transactions
                               ELSE add_transaction(r.transactions, tx)]

\* TransactionProcessor::handle on a processor p = [accounts, transactions]
handle(p, tx) ==
    LET accounts == entry_or_default(p.accounts, client_id(tx))
        account == accounts[client_id(tx)]
    IN  IF is_frozen(account)
        THEN [accounts |-> accounts, transactions |-> p.transactions]
        ELSE LET r == match_arm(account, p.transactions, tx) IN
             [accounts |-> [accounts EXCEPT ![client_id(tx)] = r.account],
              transactions |-> IF r.returned
                               THEN r.transactions
                               ELSE add_transaction(r.transactions, tx)]

\* a summary that does not leave the errored accounts out
summary_unfiltered(accounts) ==
    {AccountSummary(client, accounts[client]) : client \in DOMAIN accounts}

\* TransactionProcessor::summary: the rows of the accounts that carry no error
summary(accounts) ==
    {AccountSummary(client, accounts[client]) :
        client \in {c \in DOMAIN accounts : accounts[c].error = <<>>}}

\* TransactionProcessor::default()
DefaultProcessor == [accounts |-> <<>>, transactions |-> <<>>]

\* What handle did with tx: "skipped" by the gate, "rejected" with an error,
\* "ignored" (dangling reference), or "accepted" (the arm ran to its end).
Outcome(p, tx) ==
    LET account == entry_or_default(p.accounts, client_id(tx))[client_id(tx)] IN
    IF is_frozen(account)
    THEN "skipped"
    ELSE LET r == match_arm(account, p.transactions, tx) IN
         IF r.account.error # <<>> THEN "rejected"
         ELSE IF r.returned THEN "ignored"
         ELSE "accepted"

\* ------------------------------------------------------------------ state
VARIABLES
    accounts,       \* TransactionProcessor.accounts: ClientId -> Account
    transactions,   \* TransactionProcessor.transactions: TransactionId -> TransactionState
    output,         \* <<>> until summary() has consumed the processor, then <<rows>>
    count,          \* number of events handled so far
    last,           \* <<>> or <<tx, outcome, account>>: the event handled by the latest
                    \* step, and its client's account as that step found it
    ledger,         \* per client: sums of the amounts of the accepted events
    owner,          \* per history entry: the client whose event recorded it
    referenced,     \* clients named by at least one event
    only_dw,        \* every event so far was a deposit or a withdrawal
    used_ids,       \* transaction ids named by a deposit or withdrawal event so far
    id_reused,      \* some id was named by more than one deposit or withdrawal event
    solo            \* per client: a processor fed that client's events only

vars == <<accounts, transactions, output, count, last, ledger, owner, referenced,
          only_dw, used_ids, id_reused, solo>>

processor == [accounts |-> accounts, transactions |-> transactions]

ZeroLedger ==
    [deposits |-> 0, withdrawals |-> 0, chargebacks |-> 0,
     deposit_chargebacks |-> 0, withdrawal_disputes |-> 0]

\* The sums after an accepted event of `client`; entry is the history entry
\* the event names (for a dispute or a chargeback).
Book(l, tx, entry) ==
    CASE tx.kind = "deposit" -> [l EXCEPT !.deposits = @ + tx.amount]
      [] tx.kind = "withdrawal" -> [l EXCEPT !.withdrawals = @ + tx.amount]
      [] tx.kind = "dispute" ->
            IF entry.is_deposit THEN l
            ELSE [l EXCEPT !.withdrawal_disputes = @ + entry.amount]
      [] tx.kind = "resolve" -> l
      [] tx.kind = "chargeback" ->
            IF entry.is_deposit
            THEN [l EXCEPT !.chargebacks = @ + entry.amount,
                           !.deposit_chargebacks = @ + entry.amount]
            ELSE [l EXCEPT !.chargebacks = @ + entry.amount]

Init ==
    /\ accounts = DefaultProcessor.accounts
    /\ transactions = DefaultProcessor.transactions
    /\ output = <<>>
    /\ count = 0
    /\ last = <<>>
    /\ ledger = [c \in ClientId |-> ZeroLedger]
    /\ owner = <<>>
    /\ referenced = {}
    /\ only_dw = TRUE
    /\ used_ids = {}
    /\ id_reused = FALSE
    /\ solo = [c \in ClientId |-> DefaultProcessor]

\* main's loop body: handler.handle(transaction), with the bookkeeping the
\* properties below read
Step(tx) ==
    /\ output = <<>>
    /\ count < MaxEvents
    /\ LET p == handle(processor, tx)
           o == Outcome(processor, tx)
       IN  /\ accounts' = p.accounts
           /\ transactions' = p.transactions
           /\ last' = <<tx, o, entry_or_default(accounts, client_id(tx))[client_id(tx)]>>
           /\ ledger' = IF o = "accepted"
                        THEN [ledger EXCEPT ![tx.client] =
                                Book(@, tx, IF tx.transaction_id \in DOMAIN transactions
                                            THEN transactions[tx.transaction_id]
                                            ELSE TransactionState(0, FALSE, TRUE))]
                        ELSE ledger
           /\ owner' = IF o = "accepted" /\ tx.kind \in {"deposit", "withdrawal"}
                       THEN [t \in DOMAIN owner \cup {tx.transaction_id} |->
                                IF t = tx.transaction_id THEN tx.client ELSE owner[t]]
                       ELSE owner
    /\ count' = count + 1
    /\ referenced' = referenced \cup {tx.client}
    /\ only_dw' = (only_dw /\ tx.kind \in {"deposit", "withdrawal"})
    /\ used_ids' = IF tx.kind \in {"deposit", "withdrawal"}
                   THEN used_ids \cup {tx.transaction_id}
                   ELSE used_ids
    /\ id_reused' = (\/ id_reused
                    \/ (/\ tx.kind \in {"deposit", "withdrawal"}
                        /\ tx.transaction_id \in used_ids))
    /\ UNCHANGED output

Handle(tx) == Step(tx) /\ UNCHANGED solo

\* the same step, with each client's own events replayed on its own processor
HandleSolo(tx) ==
    /\ Step(tx)
    /\ solo' = [solo EXCEPT ![tx.client] = handle(@, tx)]

\* main, after the loop: handler.summary()
Summary ==
    /\ output = <<>>
    /\ output' = <<summary(accounts)>>
    /\ UNCHANGED <<accounts, transactions, count, last, ledger, owner, referenced,
                   only_dw, used_ids, id_reused, solo>>

Next == (\E tx \in Transaction : Handle(tx)) \/ Summary

Spec == Init /\ [][Next]_vars

NextSolo == (\E tx \in Transaction : HandleSolo(tx)) \/ Summary

SpecSolo == Init /\ [][NextSolo]_vars

\* ------------------------------------------------------------- properties
\* the account handle works on: the stored one, or the default it creates
AccountOf(accts, client) ==
    IF client \in DOMAIN accts THEN accts[client] ELSE DefaultAccount

Active(account) == ~account.locked /\ account.error = <<>>

\* Option<TransactionState> of an id
EntryOf(txs, id) == IF id \in DOMAIN txs THEN <<txs[id]>> ELSE <<>>

DisputeKinds == {"dispute", "resolve", "chargeback"}

\* C1: an event of a client whose account is locked or carries an error
\* leaves every account and every history entry as they were.
C1_FrozenAccountIsNoOp ==
    [][count' = count + 1 =>
        LET tx == last'[1] IN
        (/\ tx.client \in DOMAIN accounts
         /\ (accounts[tx.client].locked \/ accounts[tx.client].error # <<>>))
        => (accounts' = accounts /\ transactions' = transactions)]_vars

\* a deposit was skipped on a locked account
C1_Witness ==
    /\ last # <<>>
    /\ last[1].kind = "deposit" /\ last[1].amount > 0
    /\ last[2] = "skipped"
    /\ accounts[last[1].client].locked

\* C2 as stated: available + held is the accepted deposits minus the accepted
\* withdrawals minus the amounts charged back on the account, in every state.
C2_NetWorthAsStated ==
    \A c \in DOMAIN accounts :
        accounts[c].available + accounts[c].held =
            ledger[c].deposits - ledger[c].withdrawals - ledger[c].chargebacks

\* C2 as amended: a disputed withdrawal adds its amount to held and nothing
\* takes it out of available + held again; only the chargeback of a deposit
\* takes funds out.
C2_NetWorth ==
    \A c \in DOMAIN accounts :
        accounts[c].available + accounts[c].held =
            ledger[c].deposits - ledger[c].withdrawals
            - ledger[c].deposit_chargebacks + ledger[c].withdrawal_disputes

\* a withdrawal was disputed and then charged back
C2_Witness ==
    \E c \in DOMAIN accounts :
        /\ ledger[c].withdrawal_disputes > 0
        /\ ledger[c].chargebacks > 0
        /\ ledger[c].deposit_chargebacks = 0
        /\ accounts[c].locked

\* C3 as stated: the account of a client is what that client's own events
\* alone produce, whatever the other clients' events are.
C3_ClientsAreIsolated ==
    \A c \in DOMAIN accounts : accounts[c] = solo[c].accounts[c]

\* C4 as stated: a dispute, resolve or chargeback naming an entry recorded by
\* another client changes neither account nor the entry.
C4_ForeignReferenceIsNoOp ==
    [][count' = count + 1 =>
        LET tx == last'[1] IN
        (/\ tx.kind \in DisputeKinds
         /\ tx.transaction_id \in DOMAIN owner
         /\ owner[tx.transaction_id] # tx.client)
        => /\ AccountOf(accounts', tx.client) = AccountOf(accounts, tx.client)
           /\ transactions' = transactions
           /\ accounts'[owner[tx.transaction_id]] = accounts[owner[tx.transaction_id]]]_vars

\* C5: a dispute, resolve or chargeback of an active account that names an id
\* without a history entry records no error, changes no balance or lock and
\* creates no entry.
C5_DanglingReferenceIgnored ==
    [][count' = count + 1 =>
        LET tx == last'[1] IN
        (/\ tx.kind \in DisputeKinds
         /\ Active(AccountOf(accounts, tx.client))
         /\ tx.transaction_id \notin DOMAIN transactions)
        => /\ accounts'[tx.client].error = <<>>
           /\ \A c \in DOMAIN accounts' :
                /\ accounts'[c].available = AccountOf(accounts, c).available
                /\ accounts'[c].held = AccountOf(accounts, c).held
                /\ accounts'[c].locked = AccountOf(accounts, c).locked
           /\ transactions' = transactions
           /\ tx.transaction_id \notin DOMAIN transactions']_vars

\* a chargeback of an unknown id was ignored by an account that holds funds
C5_Witness ==
    /\ last # <<>>
    /\ last[1].kind = "chargeback"
    /\ last[2] = "ignored"
    /\ last[1].transaction_id \notin DOMAIN transactions
    /\ accounts[last[1].client].available > 0
    /\ Active(accounts[last[1].client])

\* C6: handle changes no account but the event's client's; an error is
\* recorded on that account only, and no account is ever removed.
C6_Quarantine ==
    [][count' = count + 1 =>
        LET tx == last'[1] IN
        /\ DOMAIN accounts \subseteq DOMAIN accounts'
        /\ \A c \in DOMAIN accounts' \ {tx.client} :
                c \in DOMAIN accounts /\ accounts'[c] = accounts[c]]_vars

\* after one client was stopped by an error, another client's event was accepted
C6_Witness ==
    /\ last # <<>>
    /\ last[2] = "accepted"
    /\ last[1].kind = "withdrawal" /\ last[1].amount > 0
    /\ \E c \in DOMAIN accounts \ {last[1].client} : accounts[c].error # <<>>

\* C7: summary yields exactly one row for each referenced client without an
\* error, with its available, held, locked and total = available + held, and
\* no other row.
C7_SummaryRows ==
    output # <<>> =>
        \A c \in ClientId :
            LET rows == {r \in output[1] : r.client = c} IN
            IF c \in referenced
            THEN /\ c \in DOMAIN accounts
                 /\ rows = IF accounts[c].error = <<>>
                           THEN {[client |-> c,
                                  available |-> accounts[c].available,
                                  held |-> accounts[c].held,
                                  total |-> accounts[c].available + accounts[c].held,
                                  locked |-> accounts[c].locked]}
                           ELSE {}
            ELSE rows = {}

\* a summary of one errored client, one client with funds held, and one row
C7_Witness ==
    /\ output # <<>>
    /\ Cardinality(output[1]) = 1
    /\ Cardinality(referenced) = 2
    /\ \E c \in referenced : accounts[c].error # <<>>
    /\ \E r \in output[1] : r.held > 0 /\ r.available > 0

\* C8: while only deposits and withdrawals were sent and all of a client's
\* were accepted, held is 0 and available is the deposits minus the withdrawals.
C8_DepositsMinusWithdrawals ==
    only_dw =>
        \A c \in DOMAIN accounts :
            accounts[c].error = <<>> =>
                /\ accounts[c].held = 0
                /\ accounts[c].available = ledger[c].deposits - ledger[c].withdrawals
                /\ ~accounts[c].locked

\* one client, two deposits and a withdrawal, all accepted
C8_Witness ==
    /\ only_dw
    /\ referenced = {1}
    /\ accounts[1].error = <<>>
    /\ count = 3
    /\ ledger[1].deposits = 3
    /\ ledger[1].withdrawals = 2

\* C9: an accepted dispute of a deposit moves exactly the entry's amount from
\* available to held, keeps locked, and flags the entry.
C9_DisputeOfDeposit ==
    [][count' = count + 1 =>
        LET tx == last'[1]
            before == AccountOf(accounts, tx.client)
            entry == EntryOf(transactions, tx.transaction_id)
        IN
        (/\ tx.kind = "dispute"
         /\ Active(before)
         /\ entry # <<>>
         /\ entry[1].is_deposit
         /\ ~entry[1].is_under_dispute
         /\ entry[1].amount <= before.available)
        => /\ accounts'[tx.client].available = before.available - entry[1].amount
           /\ accounts'[tx.client].held = before.held + entry[1].amount
           /\ accounts'[tx.client].locked = before.locked
           /\ accounts'[tx.client].error = <<>>
           /\ transactions'[tx.transaction_id] =
                [entry[1] EXCEPT !.is_under_dispute = TRUE]]_vars

\* a deposit of 2 was disputed on an account that keeps 1 available
C9_Witness ==
    /\ last # <<>>
    /\ last[1].kind = "dispute"
    /\ last[2] = "accepted"
    /\ transactions[last[1].transaction_id].is_deposit
    /\ transactions[last[1].transaction_id].amount = 2
    /\ accounts[last[1].client].held = 2
    /\ accounts[last[1].client].available = 1

\* C10: a dispute of a deposit whose amount exceeds available is rejected with
\* NotSufficientFundsForDispute; balances and the entry's flag stay.
C10_DisputeWithoutFunds ==
    [][count' = count + 1 =>
        LET tx == last'[1]
            before == AccountOf(accounts, tx.client)
            entry == EntryOf(transactions, tx.transaction_id)
        IN
        (/\ tx.kind = "dispute"
         /\ Active(before)
         /\ entry # <<>>
         /\ entry[1].is_deposit
         /\ ~entry[1].is_under_dispute
         /\ entry[1].amount > before.available)
        => /\ accounts'[tx.client].error =
                <<[client |-> tx.client, tx |-> tx.transaction_id,
                   kind |-> "NotSufficientFundsForDispute"]>>
           /\ accounts'[tx.client].available = before.available
           /\ accounts'[tx.client].held = before.held
           /\ accounts'[tx.client].locked = before.locked
           /\ transactions' = transactions]_vars

\* the client withdrew part of a deposit and then disputed the deposit
C10_Witness ==
    /\ last # <<>>
    /\ last[1].kind = "dispute"
    /\ last[2] = "rejected"
    /\ owner[last[1].transaction_id] = last[1].client
    /\ transactions[last[1].transaction_id].is_deposit
    /\ ~transactions[last[1].transaction_id].is_under_dispute
    /\ accounts[last[1].client].available > 0
    /\ accounts[last[1].client].available < transactions[last[1].transaction_id].amount

\* C11 as stated: a resolve right after the accepted dispute of the same entry
\* by the same client restores available and held to their values before the
\* dispute and clears the flag; a resolve of an entry that is not under dispute
\* is rejected with ResolveWhenTxNotUnderDispute.
C11_DisputeResolveRoundTrip ==
    [][count' = count + 1 =>
        LET tx == last'[1]
            before == AccountOf(accounts, tx.client)
            entry == EntryOf(transactions, tx.transaction_id)
        IN
        /\ (/\ tx.kind = "resolve"
            /\ last # <<>>
            /\ last[1].kind = "dispute"
            /\ last[2] = "accepted"
            /\ last[1].client = tx.client
            /\ last[1].transaction_id = tx.transaction_id)
           => /\ accounts'[tx.client].available = last[3].available
              /\ accounts'[tx.client].held = last[3].held
              /\ ~transactions'[tx.transaction_id].is_under_dispute
        /\ (/\ tx.kind = "resolve"
            /\ Active(before)
            /\ entry # <<>>
            /\ ~entry[1].is_under_dispute)
           => /\ accounts'[tx.client].error =
                    <<[client |-> tx.client, tx |-> tx.transaction_id,
                       kind |-> "ResolveWhenTxNotUnderDispute"]>>
              /\ accounts'[tx.client].available = before.available
              /\ accounts'[tx.client].held = before.held
              /\ transactions' = transactions]_vars

ErrorOf(tx, kind) ==
    <<[client |-> tx.client, tx |-> tx.transaction_id, kind |-> kind]>>

\* C12: an accepted chargeback of a deposit entry under dispute takes exactly
\* the entry's amount out of held, keeps available, locks the account without
\* an error and clears the flag; deposit(a), dispute, chargeback on a fresh
\* client ends with total 0 and locked.
C12_ChargebackOfDeposit ==
    [][count' = count + 1 =>
        LET tx == last'[1]
            before == AccountOf(accounts, tx.client)
            entry == EntryOf(transactions, tx.transaction_id)
            after == accounts'[tx.client]
        IN
        (/\ tx.kind = "chargeback"
         /\ Active(before)
         /\ entry # <<>>
         /\ entry[1].is_deposit
         /\ entry[1].is_under_dispute)
        => /\ after.held = before.held - entry[1].amount
           /\ after.available = before.available
           /\ after.locked
           /\ after.error = <<>>
           /\ transactions'[tx.transaction_id] =
                [entry[1] EXCEPT !.is_under_dispute = FALSE]
           /\ (/\ count = 2
               /\ referenced = {tx.client}
               /\ ledger[tx.client].deposits = entry[1].amount)
              => after.available + after.held = 0]_vars

\* deposit of 2, dispute, chargeback on a fresh client
C12_Witness ==
    /\ last # <<>>
    /\ count = 3
    /\ last[1].kind = "chargeback"
    /\ last[2] = "accepted"
    /\ referenced = {last[1].client}
    /\ transactions[last[1].transaction_id].is_deposit
    /\ transactions[last[1].transaction_id].amount = 2
    /\ accounts[last[1].client].locked
    /\ accounts[last[1].client].available + accounts[last[1].client].held = 0

\* C13: an accepted dispute of a withdrawal entry adds exactly the entry's
\* amount to held and keeps available and locked, whatever available is, and
\* flags the entry.
C13_DisputeOfWithdrawal ==
    [][count' = count + 1 =>
        LET tx == last'[1]
            before == AccountOf(accounts, tx.client)
            entry == EntryOf(transactions, tx.transaction_id)
            after == accounts'[tx.client]
        IN
        (/\ tx.kind = "dispute"
         /\ Active(before)
         /\ entry # <<>>
         /\ ~entry[1].is_deposit
         /\ ~entry[1].is_under_dispute)
        => /\ after.held = before.held + entry[1].amount
           /\ after.available = before.available
           /\ after.locked = before.locked
           /\ after.error = <<>>
           /\ transactions'[tx.transaction_id] =
                [entry[1] EXCEPT !.is_under_dispute = TRUE]]_vars

\* a withdrawal of 2 was disputed on an account with nothing available
C13_Witness ==
    /\ last # <<>>
    /\ last[1].kind = "dispute"
    /\ last[2] = "accepted"
    /\ ~transactions[last[1].transaction_id].is_deposit
    /\ transactions[last[1].transaction_id].amount = 2
    /\ accounts[last[1].client].available = 0
    /\ accounts[last[1].client].held = 2

\* C14: a withdrawal of an amount >= 0 above available is rejected with
\* NotSufficientFunds and keeps available and held; a withdrawal of exactly
\* available is accepted and leaves available 0.
C14_WithdrawalFunds ==
    [][count' = count + 1 =>
        LET tx == last'[1]
            before == AccountOf(accounts, tx.client)
            after == accounts'[tx.client]
        IN
        (tx.kind = "withdrawal" /\ Active(before) /\ tx.amount >= 0) =>
            /\ tx.amount > before.available
               => /\ after.error = ErrorOf(tx, "NotSufficientFunds")
                  /\ after.available = before.available
                  /\ after.held = before.held
            /\ tx.amount = before.available
               => /\ after.error = <<>>
                  /\ after.available = 0
                  /\ after.held = before.held]_vars

\* a withdrawal of 2 was rejected on an account that has 1 available
C14_Witness ==
    /\ last # <<>>
    /\ last[1].kind = "withdrawal"
    /\ last[1].amount = 2
    /\ last[2] = "rejected"
    /\ accounts[last[1].client].available = 1
    /\ accounts[last[1].client].error[1].kind = "NotSufficientFunds"

\* C15: a deposit or withdrawal of a negative amount is rejected with
\* NegativeAmount, whatever available is, and keeps available and held; one
\* of amount 0 is accepted.
C15_NegativeAmount ==
    [][count' = count + 1 =>
        LET tx == last'[1]
            before == AccountOf(accounts, tx.client)
            after == accounts'[tx.client]
        IN
        (tx.kind \in {"deposit", "withdrawal"} /\ Active(before)) =>
            /\ tx.amount < 0
               => /\ after.error = ErrorOf(tx, "NegativeAmount")
                  /\ after.available = before.available
                  /\ after.held = before.held
            /\ tx.amount = 0
               => /\ after.error = <<>>
                  /\ after.available = before.available
                  /\ after.held = before.held
                  /\ tx.transaction_id \in DOMAIN transactions'
                  /\ transactions'[tx.transaction_id].amount = 0]_vars

\* a withdrawal of a negative amount was rejected on an account with funds
C15_Witness ==
    /\ last # <<>>
    /\ last[1].kind = "withdrawal"
    /\ last[1].amount < 0
    /\ last[2] = "rejected"
    /\ accounts[last[1].client].available > 0
    /\ accounts[last[1].client].error[1].kind = "NegativeAmount"

\* C16: a dispute of an entry that is already under dispute is rejected with
\* DisputeReferencesAlreadyDisputedTx, also when the entry's amount exceeds
\* available; available, held and the entry stay.
C16_AlreadyDisputed ==
    [][count' = count + 1 =>
        LET tx == last'[1]
            before == AccountOf(accounts, tx.client)
            entry == EntryOf(transactions, tx.transaction_id)
            after == accounts'[tx.client]
        IN
        (/\ tx.kind = "dispute"
         /\ Active(before)
         /\ entry # <<>>
         /\ entry[1].is_under_dispute)
        => /\ after.error = ErrorOf(tx, "DisputeReferencesAlreadyDisputedTx")
           /\ after.available = before.available
           /\ after.held = before.held
           /\ transactions' = transactions]_vars

\* a second dispute of a deposit whose amount is above what is available
C16_Witness ==
    /\ last # <<>>
    /\ last[1].kind = "dispute"
    /\ last[2] = "rejected"
    /\ transactions[last[1].transaction_id].is_under_dispute
    /\ transactions[last[1].transaction_id].is_deposit
    /\ transactions[last[1].transaction_id].amount > accounts[last[1].client].available
    /\ accounts[last[1].client].error[1].kind = "DisputeReferencesAlreadyDisputedTx"

\* C17 as stated: held is never negative.
C17_HeldNonNegative ==
    \A c \in DOMAIN accounts : accounts[c].held >= 0

\* C18: available is never negative.
C18_AvailableNonNegative ==
    \A c \in DOMAIN accounts : accounts[c].available >= 0

\* a client disputed a deposit that another client recorded
\* and has nothing available left
C18_Witness ==
    /\ last # <<>>
    /\ last[1].kind = "dispute"
    /\ last[2] = "accepted"
    /\ owner[last[1].transaction_id] # last[1].client
    /\ transactions[last[1].transaction_id].is_deposit
    /\ transactions[last[1].transaction_id].amount > 0
    /\ accounts[last[1].client].available = 0

\* C19: a step that records an error leaves the history as it was; an
\* accepted deposit or withdrawal writes {amount, is_deposit, not under
\* dispute} for its id beside the updated balance, and nothing else creates
\* an entry or changes an entry's amount or is_deposit.
C19_HistoryWrites ==
    [][count' = count + 1 =>
        LET tx == last'[1]
            before == AccountOf(accounts, tx.client)
            after == accounts'[tx.client]
            accepted_dw ==
                /\ tx.kind \in {"deposit", "withdrawal"}
                /\ Active(before)
                /\ tx.amount >= 0
                /\ tx.kind = "withdrawal" => tx.amount <= before.available
        IN
        /\ (before.error = <<>> /\ after.error # <<>>) => transactions' = transactions
        /\ accepted_dw
           => /\ DOMAIN transactions' = DOMAIN transactions \cup {tx.transaction_id}
              /\ \A t \in DOMAIN transactions' :
                    transactions'[t] =
                        IF t = tx.transaction_id
                        THEN [amount |-> tx.amount, is_under_dispute |-> FALSE,
                              is_deposit |-> (tx.kind = "deposit")]
                        ELSE transactions[t]
              /\ after.available =
                    IF tx.kind = "deposit"
                    THEN before.available + tx.amount
                    ELSE before.available - tx.amount
        /\ ~accepted_dw
           => /\ DOMAIN transactions' = DOMAIN transactions
              /\ \A t \in DOMAIN transactions :
                    /\ transactions'[t].amount = transactions[t].amount
                    /\ transactions'[t].is_deposit = transactions[t].is_deposit
                    /\ t # tx.transaction_id => transactions'[t] = transactions[t]]_vars

\* a withdrawal naming the id of a recorded deposit was rejected, and the
\* deposit's entry is still there
C19_Witness ==
    /\ last # <<>>
    /\ last[1].kind = "withdrawal"
    /\ last[2] = "rejected"
    /\ last[1].transaction_id \in DOMAIN transactions
    /\ transactions[last[1].transaction_id].is_deposit
    /\ transactions[last[1].transaction_id].amount # last[1].amount

\* C20: a chargeback of an entry that is not under dispute is rejected with
\* ChargebackWhenTxNotUnderDispute and does not lock; an accepted chargeback
\* of a withdrawal entry moves the entry's amount from held to available,
\* locks and clears the flag; locked turns true in no other way.
C20_ChargebackRules ==
    [][count' = count + 1 =>
        LET tx == last'[1]
            before == AccountOf(accounts, tx.client)
            entry == EntryOf(transactions, tx.transaction_id)
            after == accounts'[tx.client]
        IN
        /\ (/\ tx.kind = "chargeback"
            /\ Active(before)
            /\ entry # <<>>
            /\ ~entry[1].is_under_dispute)
           => /\ after.error = ErrorOf(tx, "ChargebackWhenTxNotUnderDispute")
              /\ ~after.locked
              /\ after.available = before.available
              /\ after.held = before.held
              /\ transactions' = transactions
        /\ (/\ tx.kind = "chargeback"
            /\ Active(before)
            /\ entry # <<>>
            /\ entry[1].is_under_dispute
            /\ ~entry[1].is_deposit)
           => /\ after.held = before.held - entry[1].amount
              /\ after.available = before.available + entry[1].amount
              /\ after.locked
              /\ after.error = <<>>
              /\ transactions'[tx.transaction_id] =
                    [entry[1] EXCEPT !.is_under_dispute = FALSE]
        /\ \A c \in DOMAIN accounts' :
              (accounts'[c].locked /\ ~AccountOf(accounts, c).locked)
              => /\ c = tx.client
                 /\ tx.kind = "chargeback"
                 /\ Active(before)
                 /\ entry # <<>>
                 /\ entry[1].is_under_dispute]_vars

\* a disputed withdrawal of 1 was charged back: its amount is available again
C20_Witness ==
    /\ last # <<>>
    /\ last[1].kind = "chargeback"
    /\ last[2] = "accepted"
    /\ ~transactions[last[1].transaction_id].is_deposit
    /\ transactions[last[1].transaction_id].amount = 1
    /\ accounts[last[1].client].locked
    /\ accounts[last[1].client].available = 2
    /\ accounts[last[1].client].held = 0

\* C21: an accepted deposit or withdrawal whose id already has a history
\* entry replaces that entry with the new amount, the new is_deposit and
\* is_under_dispute = FALSE, leaving every other entry and held as they were,
\* even when the old entry was under dispute; a resolve or a chargeback on an
\* active account naming an entry that is not under dispute is rejected with
\* its ...WhenTxNotUnderDispute error and moves no money.
C21_ReusedIdOverwrites ==
    [][count' = count + 1 =>
        LET tx == last'[1]
            before == AccountOf(accounts, tx.client)
            entry == EntryOf(transactions, tx.transaction_id)
            after == accounts'[tx.client]
        IN
        /\ (/\ tx.kind \in {"deposit", "withdrawal"}
            /\ Active(before)
            /\ tx.amount >= 0
            /\ (tx.kind = "withdrawal" => tx.amount <= before.available)
            /\ entry # <<>>)
           => /\ transactions' =
                    [transactions EXCEPT ![tx.transaction_id] =
                        [amount |-> tx.amount,
                         is_under_dispute |-> FALSE,
                         is_deposit |-> tx.kind = "deposit"]]
              /\ after.held = before.held
              /\ after.error = <<>>
        /\ (/\ tx.kind \in {"resolve", "chargeback"}
            /\ Active(before)
            /\ entry # <<>>
            /\ ~entry[1].is_under_dispute)
           => /\ after.error =
                    ErrorOf(tx, IF tx.kind = "resolve"
                                THEN "ResolveWhenTxNotUnderDispute"
                                ELSE "ChargebackWhenTxNotUnderDispute")
              /\ after.held = before.held
              /\ after.available = before.available
              /\ after.locked = before.locked
              /\ transactions' = transactions]_vars

\* one client alone: a deposit under dispute was overwritten by a second
\* deposit with its id, so held is positive while no entry is under dispute,
\* and the resolve of that id has just been rejected
C21_Witness ==
    /\ last # <<>>
    /\ last[1].kind = "resolve"
    /\ last[2] = "rejected"
    /\ referenced = {last[1].client}
    /\ id_reused
    /\ accounts[last[1].client].held > 0
    /\ \A t \in DOMAIN transactions : ~transactions[t].is_under_dispute
    /\ last[1].transaction_id \in DOMAIN transactions
    /\ accounts[last[1].client].error =
          ErrorOf(last[1], "ResolveWhenTxNotUnderDispute")

\* sum of f[x] over the elements x of S
RECURSIVE SumOver(_, _)
SumOver(f, S) ==
    IF S = {} THEN 0
    ELSE LET x == CHOOSE y \in S : TRUE IN f[x] + SumOver(f, S \ {x})

TotalHeld(accts) ==
    SumOver([c \in DOMAIN accts |-> accts[c].held], DOMAIN accts)

DisputedAmount(txs) ==
    SumOver([t \in DOMAIN txs |-> txs[t].amount],
            {t \in DOMAIN txs : txs[t].is_under_dispute})

\* C22: as long as no transaction id has been named by more than one deposit
\* or withdrawal event, the held amounts of all accounts add up to the
\* amounts of the history entries under dispute (to 0 when none is).
C22_HeldMatchesDisputes ==
    ~id_reused => TotalHeld(accounts) = DisputedAmount(transactions)

\* two clients each hold their own disputed deposit, of 2 and of 1
C22_Witness ==
    /\ ~id_reused
    /\ \A t \in TransactionId :
          t \in DOMAIN transactions /\ transactions[t].is_under_dispute
    /\ \E c, d \in DOMAIN accounts :
          /\ c # d
          /\ accounts[c].held = 2
          /\ accounts[d].held = 1
    /\ DisputedAmount(transactions) = 3

====
